---- MODULE Spec2Model ----
(***************************************************************************)
(* Model of go-tor-dht-poc/tordht/ipfs/transport.go:                       *)
(*   - torDHT.connectPeers, the quorum connector (fan-out of one goroutine *)
(*     per peer, fan-in over the buffered channel peerConnCh);             *)
(*   - TorTransport.Dial / TorTransport.initDialers, the lazily built dial *)
(*     session guarded by dialerLock.                                      *)
(* The two parts share no state; each has its own specification.           *)
(***************************************************************************)
EXTENDS Integers, Sequences, FiniteSets

(***************************************************************************)
(* Bounds                                                                  *)
(***************************************************************************)
\* largest candidate list handed to connectPeers
MaxPeers == 3
\* number of goroutines calling Dial on one TorTransport
NumDialers == 2
\* number of Dial calls made on one TorTransport in a behaviour
MaxDials == 3
\* number of Listen calls made on one TorTransport in a behaviour
MaxListens == 3
\* number of Close calls made on one torDHT in a behaviour
MaxCloses == 4

Peers == 1 .. MaxPeers
PeerCounts == 0 .. MaxPeers
MinRequiredArgs == 0 .. (MaxPeers + 1)
Dialers == 1 .. NumDialers

VARIABLES
    \* ---- torDHT.connectPeers ----
    qpc,            \* position of the connectPeers goroutine
    nPeers,         \* len(peers)
    reqArg,         \* minRequired as passed by the caller
    minRequired,    \* the local minRequired after lines 314-316
    launched,       \* number of attempt goroutines started by the for loop
    attempt,        \* position of each attempt goroutine
    attemptErr,     \* what connectPeer returned in each attempt goroutine
    peerConnCh,     \* the buffered channel, oldest message first
    peerErrs,       \* the local slice peerErrs
    peersConnected, \* the local counter peersConnected
    ctxErr,         \* ctx.Err() of the context passed to connectPeers
    ret,            \* the value connectPeers returned
    \* ---- TorTransport ----
    webSocket,      \* t.conf.WebSocket
    torDialer,      \* t.torDialer: 0 is nil, k the handle made by factory call k
    wsDialer,       \* t.wsDialer: 0 is nil, k a dialer whose NetDial is handle k
    dialerLock,     \* t.dialerLock: 0 is unlocked, p the goroutine holding it
    dialerCalls,    \* number of calls made to bineTor.Dialer
    dpc,            \* position of each goroutine inside Dial
    initErr,        \* the error initDialers is about to return, per goroutine
    dialRet,        \* what each goroutine's last returned Dial returned
    dialVia,        \* the raw dial path the last Dial of each goroutine took
    dialsStarted,   \* number of Dial calls made so far
    dialAddr,       \* the raddr of the Dial each goroutine is in, <<>> if none
    dialCtx,        \* the ctx of the Dial each goroutine is in: "live" or "done"
    rawConn,        \* the netConn of each goroutine's current (or last) Dial:
                    \* "none", "open" or "closed"
    canDialAddr,    \* the addr of the last CanDial, <<>> if none
    canDialRet,     \* what the last CanDial returned
    \* ---- torDHT.Close ----
    dhtSet,         \* t.ipfsDHT != nil
    hostSet,        \* t.ipfsHost != nil
    cpc,            \* position of the goroutine inside Close
    closeErr,       \* the named result err of Close
    closeLog,       \* the Close calls made on the DHT and the host by the
                    \* current (or last) torDHT.Close, with their results
    closeRet,       \* what the last torDHT.Close returned
    closeCalls,     \* number of torDHT.Close calls made so far
    \* ---- TorTransport.Listen ----
    lpc,            \* position of the goroutine inside Listen
    listenAddr,     \* the laddr of the current (or last) Listen
    listenErr,      \* the local err of Listen that the deferred function reads
    onion,          \* the onion service of the current (or last) Listen:
                    \* "none", "open" or "closed"
    listenRet,      \* what the last returned Listen returned
    onionListens,   \* number of calls made to bineTor.Listen
    listensStarted  \* number of Listen calls made so far

qvars == <<qpc, nPeers, reqArg, minRequired, launched, attempt, attemptErr,
           peerConnCh, peerErrs, peersConnected, ctxErr, ret>>
tvars == <<webSocket, torDialer, wsDialer, dialerLock, dialerCalls, dpc,
           initErr, dialRet, dialVia, dialsStarted,
           dialAddr, dialCtx, rawConn, canDialAddr, canDialRet>>
cvars == <<dhtSet, hostSet, cpc, closeErr, closeLog, closeRet, closeCalls>>
lvars == <<lpc, listenAddr, listenErr, onion, listenRet, onionListens, listensStarted>>
vars == <<qpc, nPeers, reqArg, minRequired, launched, attempt, attemptErr,
          peerConnCh, peerErrs, peersConnected, ctxErr, ret,
          webSocket, torDialer, wsDialer, dialerLock, dialerCalls, dpc,
          initErr, dialRet, dialVia, dialsStarted,
          dialAddr, dialCtx, rawConn, canDialAddr, canDialRet,
          dhtSet, hostSet, cpc, closeErr, closeLog, closeRet, closeCalls,
          lpc, listenAddr, listenErr, onion, listenRet, onionListens, listensStarted>>

(***************************************************************************)
(* torDHT.connectPeers                                                     *)
(***************************************************************************)
\* error values: a message on peerConnCh is nil (0) or the error built at
\* line 328 for one peer (the peer's index)
NilErr == 0

PeerConnError(peer) == peer

\* the value of a connectPeers call that has not returned
NotReturned == [kind |-> "pending", cause |-> "nil", errs |-> <<>>]

\* line 344: return nil
ReturnNil == [kind |-> "nil", cause |-> "nil", errs |-> <<>>]

\* a variant that reports only the failure that exhausted the budget
ManyFailuresError_LastOnly(errs) ==
    [kind |-> "ManyFailures", cause |-> "nil", errs |-> <<errs[Len(errs)]>>]

\* line 349: "Many failures, unable to get enough peers: %v"
ManyFailuresError(errs) == [kind |-> "ManyFailures", cause |-> "nil", errs |-> errs]

\* a variant that reports the context error without the peer errors
ContextError_NoPeerErrs(cause, errs) ==
    [kind |-> "ContextErrored", cause |-> cause, errs |-> <<>>]

\* line 353: "Context errored with '%v', peer errors: %v"
ContextError(cause, errs) == [kind |-> "ContextErrored", cause |-> cause, errs |-> errs]

\* a variant without the clamp
ClampMinRequired_None(n, r) == r

\* lines 314-316
ClampMinRequired(n, r) == IF n < r THEN n ELSE r

\* a variant that is satisfied one connection early
EnoughPeers_OneEarly(connected, minReq) == connected >= minReq - 1

\* line 343
EnoughPeers(connected, minReq) == connected >= minReq

\* a variant that gives up when the budget is used up, not exceeded
TooManyFailures_AtBudget(nErrs, n, minReq) == nErrs >= n - minReq

\* a variant that tolerates one failure more than the budget
TooManyFailures_OneLate(nErrs, n, minReq) == nErrs > n - minReq + 1

\* line 348
TooManyFailures(nErrs, n, minReq) == nErrs > n - minReq

\* a variant whose buffer is one slot short
ChanCap_OneShort(n) == n - 1

\* line 319: make(chan error, len(peers))
ChanCap(n) == n

QInit ==
    /\ qpc = "idle"
    /\ nPeers = 0
    /\ reqArg = 0
    /\ minRequired = 0
    /\ launched = 0
    /\ attempt = [i \in Peers |-> "none"]
    /\ attemptErr = [i \in Peers |-> "unset"]
    /\ peerConnCh = <<>>
    /\ peerErrs = <<>>
    /\ peersConnected = 0
    /\ ctxErr = "nil"
    /\ ret = NotReturned

\* lines 313-319 and 335-336: entry, clamp, make(chan error, len(peers))
ConnectPeers(n, r) ==
    /\ qpc = "idle"
    /\ nPeers' = n
    /\ reqArg' = r
    /\ minRequired' = ClampMinRequired(n, r)
    /\ peerConnCh' = <<>>
    /\ peerErrs' = <<>>
    /\ peersConnected' = 0
    /\ qpc' = IF n = 0 THEN "loop" ELSE "launch"
    /\ UNCHANGED <<launched, attempt, attemptErr, ctxErr, ret>>
    /\ UNCHANGED <<tvars, cvars, lvars>>

\* lines 320-334: one iteration of the for loop starts one goroutine
LaunchAttempt ==
    /\ qpc = "launch"
    /\ launched < nPeers
    /\ launched' = launched + 1
    /\ attempt' = [attempt EXCEPT ![launched + 1] = "connecting"]
    /\ qpc' = IF launched + 1 = nPeers THEN "loop" ELSE "launch"
    /\ UNCHANGED <<nPeers, reqArg, minRequired, attemptErr, peerConnCh,
                   peerErrs, peersConnected, ctxErr, ret>>
    /\ UNCHANGED <<tvars, cvars, lvars>>

\* line 326: t.connectPeer returns in attempt goroutine i
AttemptConnect(i, ok) ==
    /\ attempt[i] = "connecting"
    /\ attempt' = [attempt EXCEPT ![i] = "returned"]
    /\ attemptErr' = [attemptErr EXCEPT ![i] = IF ok THEN "nil" ELSE "err"]
    /\ UNCHANGED <<qpc, nPeers, reqArg, minRequired, launched, peerConnCh,
                   peerErrs, peersConnected, ctxErr, ret>>
    /\ UNCHANGED <<tvars, cvars, lvars>>

\* lines 328 and 331: the send on peerConnCh, which needs a free buffer slot
AttemptReport(i) ==
    /\ attempt[i] = "returned"
    /\ Len(peerConnCh) < ChanCap(nPeers)
    /\ peerConnCh' = Append(peerConnCh,
                            IF attemptErr[i] = "nil" THEN NilErr ELSE PeerConnError(i))
    /\ attempt' = [attempt EXCEPT ![i] = "reported"]
    /\ UNCHANGED <<qpc, nPeers, reqArg, minRequired, launched, attemptErr,
                   peerErrs, peersConnected, ctxErr, ret>>
    /\ UNCHANGED <<tvars, cvars, lvars>>

\* the owner of ctx cancels it, or its deadline passes
CancelCtx(cause) ==
    /\ ctxErr = "nil"
    /\ ctxErr' = cause
    /\ UNCHANGED <<qpc, nPeers, reqArg, minRequired, launched, attempt,
                   attemptErr, peerConnCh, peerErrs, peersConnected, ret>>
    /\ UNCHANGED <<tvars, cvars, lvars>>

\* lines 340-351: the select takes the receive case
RecvPeerErr ==
    /\ qpc = "loop"
    /\ peerConnCh # <<>>
    /\ LET peerErr == Head(peerConnCh) IN
        /\ peerConnCh' = Tail(peerConnCh)
        /\ IF peerErr = NilErr
             THEN /\ peersConnected' = peersConnected + 1
                  /\ peerErrs' = peerErrs
                  /\ IF EnoughPeers(peersConnected + 1, minRequired)
                       THEN qpc' = "done" /\ ret' = ReturnNil
                       ELSE qpc' = "loop" /\ ret' = ret
             ELSE /\ peersConnected' = peersConnected
                  /\ peerErrs' = Append(peerErrs, peerErr)
                  /\ IF TooManyFailures(Len(peerErrs) + 1, nPeers, minRequired)
                       THEN qpc' = "done"
                            /\ ret' = ManyFailuresError(Append(peerErrs, peerErr))
                       ELSE qpc' = "loop" /\ ret' = ret
    /\ UNCHANGED <<nPeers, reqArg, minRequired, launched, attempt, attemptErr, ctxErr>>
    /\ UNCHANGED <<tvars, cvars, lvars>>

\* lines 352-353: the select takes the ctx.Done() case
CtxDone ==
    /\ qpc = "loop"
    /\ ctxErr # "nil"
    /\ qpc' = "done"
    /\ ret' = ContextError(ctxErr, peerErrs)
    /\ UNCHANGED <<nPeers, reqArg, minRequired, launched, attempt, attemptErr,
                   peerConnCh, peerErrs, peersConnected, ctxErr>>
    /\ UNCHANGED <<tvars, cvars, lvars>>

(***************************************************************************)
(* TorTransport                                                            *)
(***************************************************************************)
TInit ==
    /\ webSocket \in BOOLEAN
    /\ torDialer = 0
    /\ wsDialer = 0
    /\ dialerLock = 0
    /\ dialerCalls = 0
    /\ dpc = [p \in Dialers |-> "idle"]
    /\ initErr = [p \in Dialers |-> FALSE]
    /\ dialRet = [p \in Dialers |-> "none"]
    /\ dialVia = [p \in Dialers |-> "none"]
    /\ dialsStarted = 0
    /\ dialAddr = [p \in Dialers |-> <<>>]
    /\ dialCtx = [p \in Dialers |-> "live"]
    /\ rawConn = [p \in Dialers |-> "none"]
    /\ canDialAddr = <<>>
    /\ canDialRet = FALSE

\* the addresses handed to Dial and CanDial: an onion address, one without
\* port, the listen marker, a plain TCP address, an onion address that also
\* carries a listen marker with a value
OnionAddr == <<[proto |-> "onion", val |-> "abcdefghijklmnop:4001"]>>

DialAddrs ==
    { OnionAddr,
      <<[proto |-> "onion", val |-> "abcdefghijklmnop"]>>,
      <<[proto |-> "onionListen", val |-> ""]>>,
      <<[proto |-> "tcp", val |-> "4001"]>>,
      <<[proto |-> "onion", val |-> "abcdefghijklmnop:4001"],
        [proto |-> "onionListen", val |-> "x"]>> }

\* the onion values that split into an identity and a port
OnionValues == {"abcdefghijklmnop:4001"}

\* defaultAddrFormat.onionInfo as called at lines 59 and 122: the address
\* codec's decode, which needs exactly the onion identity and port
OnionInfo(addr) ==
    IF Len(addr) = 1 /\ addr[1].proto = "onion" /\ addr[1].val \in OnionValues
      THEN [err |-> "nil", addr |-> addr[1].val]
      ELSE [err |-> "addrErr", addr |-> ""]

\* a variant that takes every address for dialable
CanDialResult_Always(err) == TRUE

\* line 123: return err == nil
CanDialResult(err) == err = "nil"

\* a variant that goes on in spite of the decoding error
DialAddrFails_Never(err) == FALSE

\* line 59: err != nil
DialAddrFails(err) == err # "nil"

\* line 73 against line 81: only DialContext takes ctx, the web socket
\* dialer's Dial does not
RawDialTakesCtx(via) == via = "direct"

\* a variant that never takes the session for built
AlreadyInited_Never(td) == FALSE

\* a variant that tests the web socket dialer instead of the tor dialer
AlreadyInited_ChecksWs(td) == wsDialer # 0

\* line 102: "If already inited, good enough"
AlreadyInited(td) == td # 0

\* line 106: what bineTor.Dialer hands back on its k-th call: a fresh handle,
\* or nil together with an error
DialerFactory(ok, k) == IF ok THEN k ELSE 0

\* lines 110-116: the gorilla dialer whose NetDial is the tor dialer's Dial
NewWsDialer(ws, td, old) == IF ws THEN td ELSE old

\* lines 56-63: Dial entry; onionInfo(raddr) decodes the address or fails
DialCall(p, raddr) ==
    /\ dpc[p] = "idle"
    /\ dialsStarted < MaxDials
    /\ dialsStarted' = dialsStarted + 1
    /\ dialVia' = [dialVia EXCEPT ![p] = "none"]
    /\ rawConn' = [rawConn EXCEPT ![p] = "none"]
    /\ IF ~DialAddrFails(OnionInfo(raddr).err)
         THEN /\ dpc' = [dpc EXCEPT ![p] = "lock"]
              /\ dialAddr' = [dialAddr EXCEPT ![p] = raddr]
              /\ dialRet' = dialRet
         ELSE /\ dpc' = dpc
              /\ dialAddr' = dialAddr
              /\ dialRet' = [dialRet EXCEPT ![p] = "addrErr"]
    /\ UNCHANGED <<webSocket, torDialer, wsDialer, dialerLock, dialerCalls, initErr,
                   dialCtx, canDialAddr, canDialRet>>
    /\ UNCHANGED <<qvars, cvars, lvars>>

\* a variant whose Lock never waits
LockFree_Always(l) == TRUE

\* line 99: Lock returns only when no goroutine holds the mutex
LockFree(l) == l = 0

\* line 99: t.dialerLock.Lock()
LockDialers(p) ==
    /\ dpc[p] = "lock"
    /\ LockFree(dialerLock)
    /\ dialerLock' = p
    /\ dpc' = [dpc EXCEPT ![p] = "check"]
    /\ UNCHANGED <<webSocket, torDialer, wsDialer, dialerCalls, initErr,
                   dialRet, dialVia, dialsStarted>>
    /\ UNCHANGED <<dialAddr, dialCtx, rawConn, canDialAddr, canDialRet>>
    /\ UNCHANGED <<qvars, cvars, lvars>>

\* lines 102-104: the nil check made while holding the lock
CheckInited(p) ==
    /\ dpc[p] = "check"
    /\ IF AlreadyInited(torDialer)
         THEN /\ initErr' = [initErr EXCEPT ![p] = FALSE]
              /\ dpc' = [dpc EXCEPT ![p] = "unlock"]
         ELSE /\ initErr' = initErr
              /\ dpc' = [dpc EXCEPT ![p] = "factory"]
    /\ UNCHANGED <<webSocket, torDialer, wsDialer, dialerLock, dialerCalls,
                   dialRet, dialVia, dialsStarted>>
    /\ UNCHANGED <<dialAddr, dialCtx, rawConn, canDialAddr, canDialRet>>
    /\ UNCHANGED <<qvars, cvars, lvars>>

\* lines 106-108: t.torDialer, err = t.bineTor.Dialer(ctx, t.conf.DialConf)
CallDialerFactory(p, ok) ==
    /\ dpc[p] = "factory"
    /\ dialerCalls' = dialerCalls + 1
    /\ torDialer' = DialerFactory(ok, dialerCalls + 1)
    /\ IF ok
         THEN /\ initErr' = initErr
              /\ dpc' = [dpc EXCEPT ![p] = "mkws"]
         ELSE /\ initErr' = [initErr EXCEPT ![p] = TRUE]
              /\ dpc' = [dpc EXCEPT ![p] = "unlock"]
    /\ UNCHANGED <<webSocket, wsDialer, dialerLock, dialRet, dialVia, dialsStarted>>
    /\ UNCHANGED <<dialAddr, dialCtx, rawConn, canDialAddr, canDialRet>>
    /\ UNCHANGED <<qvars, cvars, lvars>>

\* lines 109-117: build the web socket dialer if configured, return nil
MakeWsDialer(p) ==
    /\ dpc[p] = "mkws"
    /\ wsDialer' = NewWsDialer(webSocket, torDialer, wsDialer)
    /\ initErr' = [initErr EXCEPT ![p] = FALSE]
    /\ dpc' = [dpc EXCEPT ![p] = "unlock"]
    /\ UNCHANGED <<webSocket, torDialer, dialerLock, dialerCalls, dialRet,
                   dialVia, dialsStarted>>
    /\ UNCHANGED <<dialAddr, dialCtx, rawConn, canDialAddr, canDialRet>>
    /\ UNCHANGED <<qvars, cvars, lvars>>

\* line 100 (deferred Unlock) and lines 65-68: initDialers returns to Dial
UnlockDialers(p) ==
    /\ dpc[p] = "unlock"
    /\ dialerLock' = 0
    /\ IF initErr[p]
         THEN /\ dpc' = [dpc EXCEPT ![p] = "idle"]
              /\ dialRet' = [dialRet EXCEPT ![p] = "initErr"]
              /\ dialAddr' = [dialAddr EXCEPT ![p] = <<>>]
              /\ dialCtx' = [dialCtx EXCEPT ![p] = "live"]
         ELSE /\ dpc' = [dpc EXCEPT ![p] = "rawdial"]
              /\ dialRet' = dialRet
              /\ UNCHANGED <<dialAddr, dialCtx>>
    /\ UNCHANGED <<rawConn, canDialAddr, canDialRet>>
    /\ UNCHANGED <<webSocket, torDialer, wsDialer, dialerCalls, initErr,
                   dialVia, dialsStarted>>
    /\ UNCHANGED <<qvars, cvars, lvars>>

\* lines 70-85: the raw dial, through t.wsDialer when it is set; a dial
\* that takes ctx fails once ctx is done
RawDial(p, ok) ==
    /\ dpc[p] = "rawdial"
    /\ LET via == IF wsDialer # 0 THEN "ws" ELSE "direct" IN
        /\ dialVia' = [dialVia EXCEPT ![p] = via]
        /\ ok => ~(RawDialTakesCtx(via) /\ dialCtx[p] = "done")
    /\ IF ok
         THEN /\ dpc' = [dpc EXCEPT ![p] = "wrap"]
              /\ dialRet' = dialRet
              /\ rawConn' = [rawConn EXCEPT ![p] = "open"]
              /\ UNCHANGED <<dialAddr, dialCtx>>
         ELSE /\ dpc' = [dpc EXCEPT ![p] = "idle"]
              /\ dialRet' = [dialRet EXCEPT ![p] = "dialErr"]
              /\ rawConn' = rawConn
              /\ dialAddr' = [dialAddr EXCEPT ![p] = <<>>]
              /\ dialCtx' = [dialCtx EXCEPT ![p] = "live"]
    /\ UNCHANGED <<canDialAddr, canDialRet>>
    /\ UNCHANGED <<webSocket, torDialer, wsDialer, dialerLock, dialerCalls,
                   initErr, dialsStarted>>
    /\ UNCHANGED <<qvars, cvars, lvars>>

\* lines 87-89: manet.WrapNetConn
WrapNetConn(p, ok) ==
    /\ dpc[p] = "wrap"
    /\ IF ok
         THEN /\ dpc' = [dpc EXCEPT ![p] = "upgrade"]
              /\ dialRet' = dialRet
              /\ UNCHANGED <<dialAddr, dialCtx>>
         ELSE /\ dpc' = [dpc EXCEPT ![p] = "idle"]
              /\ dialRet' = [dialRet EXCEPT ![p] = "wrapErr"]
              /\ dialAddr' = [dialAddr EXCEPT ![p] = <<>>]
              /\ dialCtx' = [dialCtx EXCEPT ![p] = "live"]
    /\ UNCHANGED <<rawConn, canDialAddr, canDialRet>>
    /\ UNCHANGED <<webSocket, torDialer, wsDialer, dialerLock, dialerCalls,
                   initErr, dialVia, dialsStarted>>
    /\ UNCHANGED <<qvars, cvars, lvars>>

\* lines 90-95: t.upgrader.UpgradeOutbound, then Dial returns; Dial itself
\* closes nothing, a failing upgrader may or may not have closed the
\* connection it was given
UpgradeOutbound(p, ok, closes) ==
    /\ dpc[p] = "upgrade"
    /\ ok => ~closes
    /\ dpc' = [dpc EXCEPT ![p] = "idle"]
    /\ dialRet' = [dialRet EXCEPT ![p] = IF ok THEN "conn" ELSE "upgradeErr"]
    /\ rawConn' = [rawConn EXCEPT ![p] = IF closes THEN "closed" ELSE rawConn[p]]
    /\ dialAddr' = [dialAddr EXCEPT ![p] = <<>>]
    /\ dialCtx' = [dialCtx EXCEPT ![p] = "live"]
    /\ UNCHANGED <<webSocket, torDialer, wsDialer, dialerLock, dialerCalls,
                   initErr, dialVia, dialsStarted, canDialAddr, canDialRet>>
    /\ UNCHANGED <<qvars, cvars, lvars>>

\* the caller of Dial cancels ctx, or its deadline passes, during the call
CancelDialCtx(p) ==
    /\ dpc[p] # "idle"
    /\ dialCtx[p] = "live"
    /\ dialCtx' = [dialCtx EXCEPT ![p] = "done"]
    /\ UNCHANGED <<webSocket, torDialer, wsDialer, dialerLock, dialerCalls, dpc,
                   initErr, dialRet, dialVia, dialsStarted, dialAddr, rawConn,
                   canDialAddr, canDialRet>>
    /\ UNCHANGED <<qvars, cvars, lvars>>

\* lines 120-124
CanDial(addr) ==
    /\ canDialAddr' = addr
    /\ canDialRet' = CanDialResult(OnionInfo(addr).err)
    /\ UNCHANGED <<webSocket, torDialer, wsDialer, dialerLock, dialerCalls, dpc,
                   initErr, dialRet, dialVia, dialsStarted, dialAddr, dialCtx,
                   rawConn>>
    /\ UNCHANGED <<qvars, cvars, lvars>>

(***************************************************************************)
(* torDHT.Close                                                            *)
(***************************************************************************)
CInit ==
    /\ dhtSet \in BOOLEAN
    /\ hostSet \in BOOLEAN
    /\ cpc = "idle"
    /\ closeErr = "nil"
    /\ closeLog = <<>>
    /\ closeRet = "none"
    /\ closeCalls = 0

\* a variant that keeps the first error
HostCloseErr_KeepsFirst(err, hostCloseErr) ==
    IF err # "nil" THEN err ELSE hostCloseErr

\* lines 244-247: "Just overwrite"
HostCloseErr(err, hostCloseErr) ==
    IF hostCloseErr # "nil" THEN hostCloseErr ELSE err

\* line 239: entry, the named result err is nil
CloseCall ==
    /\ cpc = "idle"
    /\ closeCalls < MaxCloses
    /\ closeCalls' = closeCalls + 1
    /\ cpc' = "dht"
    /\ closeErr' = "nil"
    /\ closeLog' = <<>>
    /\ UNCHANGED <<dhtSet, hostSet, closeRet>>
    /\ UNCHANGED <<qvars, tvars, lvars>>

\* lines 240-242: err = t.ipfsDHT.Close() when there is a DHT
CloseDHT(e) ==
    /\ cpc = "dht"
    /\ IF dhtSet
         THEN /\ closeErr' = e
              /\ closeLog' = Append(closeLog, [obj |-> "dht", err |-> e])
         ELSE /\ e = "nil"
              /\ UNCHANGED <<closeErr, closeLog>>
    /\ cpc' = "host"
    /\ UNCHANGED <<dhtSet, hostSet, closeRet, closeCalls>>
    /\ UNCHANGED <<qvars, tvars, lvars>>

\* lines 243-249: close the host when there is one, then return err
CloseHost(e) ==
    /\ cpc = "host"
    /\ IF hostSet
         THEN /\ closeErr' = HostCloseErr(closeErr, e)
              /\ closeLog' = Append(closeLog, [obj |-> "host", err |-> e])
              /\ closeRet' = HostCloseErr(closeErr, e)
         ELSE /\ e = "nil"
              /\ UNCHANGED <<closeErr, closeLog>>
              /\ closeRet' = closeErr
    /\ cpc' = "idle"
    /\ UNCHANGED <<dhtSet, hostSet, closeCalls>>
    /\ UNCHANGED <<qvars, tvars, lvars>>

(***************************************************************************)
(* TorTransport.Listen                                                     *)
(***************************************************************************)
\* a multiaddr is a sequence of components, each a protocol and its value
OnionListenAddr == <<[proto |-> "onionListen", val |-> ""]>>

ListenAddrs ==
    { OnionListenAddr,
      <<[proto |-> "onionListen", val |-> "x"]>>,
      <<[proto |-> "onion", val |-> "abcdefghijklmnop:4001"]>>,
      <<[proto |-> "tcp", val |-> "4001"], [proto |-> "onionListen", val |-> ""]>> }

\* laddr.ValueForProtocol(code) as called at line 129: the value of the
\* first component of that protocol, an error when there is none
ValueForProtocol(addr, code) ==
    IF \E k \in 1 .. Len(addr) : addr[k].proto = code
      THEN LET k == CHOOSE j \in 1 .. Len(addr) :
                        /\ addr[j].proto = code
                        /\ \A i \in 1 .. (j - 1) : addr[i].proto # code
           IN [err |-> "nil", val |-> addr[k].val]
      ELSE [err |-> "notFound", val |-> ""]

\* a variant that forgets the test of the value
ListenRejects_ErrOnly(res) ==
    IF res.err # "nil" THEN "protoErr" ELSE "nil"

\* lines 129-133: the error Listen returns for laddr before doing anything
ListenRejects(res) ==
    IF res.err # "nil" THEN "protoErr"
    ELSE IF res.val # "" THEN "valueErr"
    ELSE "nil"

\* a variant whose deferred function closes nothing
DeferredClose_Never(err, o) == o

\* lines 147-152: the deferred function, run when Listen returns
DeferredClose(err, o) == IF err # "nil" THEN "closed" ELSE o

LInit ==
    /\ lpc = "idle"
    /\ listenAddr = <<>>
    /\ listenErr = "nil"
    /\ onion = "none"
    /\ listenRet = "none"
    /\ onionListens = 0
    /\ listensStarted = 0

\* lines 126-133: Listen entry and the test of laddr
ListenCall(laddr) ==
    /\ lpc = "idle"
    /\ listensStarted < MaxListens
    /\ listensStarted' = listensStarted + 1
    /\ listenAddr' = laddr
    /\ listenErr' = "nil"
    /\ onion' = "none"
    /\ LET rej == ListenRejects(ValueForProtocol(laddr, "onionListen")) IN
         IF rej # "nil"
           THEN lpc' = "idle" /\ listenRet' = rej
           ELSE lpc' = "register" /\ listenRet' = listenRet
    /\ UNCHANGED onionListens
    /\ UNCHANGED <<qvars, tvars, cvars>>

\* lines 135-145: onion, err := t.bineTor.Listen(ctx, ...)
RegisterOnion(ok) ==
    /\ lpc = "register"
    /\ onionListens' = onionListens + 1
    /\ IF ok
         THEN /\ onion' = "open"
              /\ listenErr' = "nil"
              /\ lpc' = "buildaddr"
              /\ listenRet' = listenRet
         ELSE /\ onion' = onion
              /\ listenErr' = "registerErr"
              /\ lpc' = "idle"
              /\ listenRet' = "registerErr"
    /\ UNCHANGED <<listenAddr, listensStarted>>
    /\ UNCHANGED <<qvars, tvars, cvars>>

\* lines 147-162 and, without web socket mode, 170-171: register the
\* deferred function, build the listener's multiaddr
NewListenMultiaddr(ok) ==
    /\ lpc = "buildaddr"
    /\ IF ~ok
         THEN /\ listenErr' = "addrErr"
              /\ onion' = DeferredClose("addrErr", onion)
              /\ lpc' = "idle"
              /\ listenRet' = "addrErr"
         ELSE IF webSocket
           THEN /\ listenErr' = "nil"
                /\ onion' = onion
                /\ lpc' = "wslisten"
                /\ listenRet' = listenRet
           ELSE /\ listenErr' = "nil"
                /\ onion' = DeferredClose("nil", onion)
                /\ lpc' = "idle"
                /\ listenRet' = "listener"
    /\ UNCHANGED <<listenAddr, onionListens, listensStarted>>
    /\ UNCHANGED <<qvars, tvars, cvars>>

\* lines 164-171: websocket.StartNewListener(onion), then return
StartNewListener(ok) ==
    /\ lpc = "wslisten"
    /\ listenErr' = (IF ok THEN "nil" ELSE "wsErr")
    /\ onion' = DeferredClose(IF ok THEN "nil" ELSE "wsErr", onion)
    /\ listenRet' = (IF ok THEN "listener" ELSE "wsErr")
    /\ lpc' = "idle"
    /\ UNCHANGED <<listenAddr, onionListens, listensStarted>>
    /\ UNCHANGED <<qvars, tvars, cvars>>

\* line 195: manetListener.Close(), called by the holder of a listener that
\* Listen has returned: return m.onion.Close()
ListenerClose ==
    /\ lpc = "idle"
    /\ listenRet = "listener"
    /\ onion # "none"
    /\ onion' = "closed"
    /\ UNCHANGED <<lpc, listenAddr, listenErr, listenRet, onionListens, listensStarted>>
    /\ UNCHANGED <<qvars, tvars, cvars>>

Init == QInit /\ TInit /\ CInit /\ LInit

TNext ==
    \/ \E p \in Dialers, raddr \in DialAddrs : DialCall(p, raddr)
    \/ \E p \in Dialers : LockDialers(p)
    \/ \E p \in Dialers : CheckInited(p)
    \/ \E p \in Dialers, ok \in BOOLEAN : CallDialerFactory(p, ok)
    \/ \E p \in Dialers : MakeWsDialer(p)
    \/ \E p \in Dialers : UnlockDialers(p)
    \/ \E p \in Dialers, ok \in BOOLEAN : RawDial(p, ok)
    \/ \E p \in Dialers, ok \in BOOLEAN : WrapNetConn(p, ok)
    \/ \E p \in Dialers, ok \in BOOLEAN, closes \in BOOLEAN : UpgradeOutbound(p, ok, closes)

\* a TorTransport as NewTorTransport returns it, dialed by several goroutines
InitTransport == QInit /\ TInit /\ CInit /\ dhtSet /\ hostSet /\ LInit

SpecTransport == InitTransport /\ [][TNext]_vars

\* the same with the callers' contexts being cancelled during Dial
DialCtxNext ==
    \/ TNext
    \/ \E p \in Dialers : CancelDialCtx(p)

SpecDialCtx == InitTransport /\ [][DialCtxNext]_vars

\* the same with CanDial called at any moment
CanDialNext ==
    \/ TNext
    \/ \E addr \in DialAddrs : CanDial(addr)

SpecCanDial == InitTransport /\ [][CanDialNext]_vars

CNext ==
    \/ CloseCall
    \/ \E e \in {"nil", "dhtErr"} : CloseDHT(e)
    \/ \E e \in {"nil", "hostErr"} : CloseHost(e)

\* a torDHT with or without DHT and host, closed several times
InitClose == QInit /\ TInit /\ webSocket = FALSE /\ CInit /\ LInit

SpecClose == InitClose /\ [][CNext]_vars

LNext ==
    \/ \E laddr \in ListenAddrs : ListenCall(laddr)
    \/ \E ok \in BOOLEAN : RegisterOnion(ok)
    \/ \E ok \in BOOLEAN : NewListenMultiaddr(ok)
    \/ \E ok \in BOOLEAN : StartNewListener(ok)
    \/ ListenerClose

\* a TorTransport, with or without web socket mode, asked to listen
InitListen == QInit /\ TInit /\ CInit /\ dhtSet /\ hostSet /\ LInit

SpecListen == InitListen /\ [][LNext]_vars

QNext ==
    \/ \E n \in PeerCounts, r \in MinRequiredArgs : ConnectPeers(n, r)
    \/ LaunchAttempt
    \/ \E i \in Peers, ok \in BOOLEAN : AttemptConnect(i, ok)
    \/ \E i \in Peers : AttemptReport(i)
    \/ \E cause \in {"canceled", "deadline"} : CancelCtx(cause)
    \/ RecvPeerErr
    \/ CtxDone

\* connectPeers runs on a torDHT whose transport is not being dialed
InitConnect == QInit /\ TInit /\ webSocket = FALSE /\ CInit /\ dhtSet /\ hostSet /\ LInit

SpecConnect == InitConnect /\ [][QNext]_vars

\* the connectPeers goroutine itself keeps running: the for loop goes on to
\* its next iteration and a select with a ready case takes one
FairLoop ==
    /\ SpecConnect
    /\ WF_vars(LaunchAttempt)
    /\ WF_vars(RecvPeerErr \/ CtxDone)

\* moreover an attempt goroutine whose connectPeer has returned gets to send
FairConnect ==
    /\ FairLoop
    /\ \A i \in Peers : WF_vars(AttemptReport(i))

(***************************************************************************)
(* Properties of connectPeers                                              *)
(***************************************************************************)
Min(a, b) == IF a < b THEN a ELSE b

Range(s) == {s[k] : k \in 1 .. Len(s)}

\* attempts that have sent nil, resp. an error, on peerConnCh
ReportedOk == {i \in Peers : attempt[i] = "reported" /\ attemptErr[i] = "nil"}

ReportedFailures == {i \in Peers : attempt[i] = "reported" /\ attemptErr[i] = "err"}

\* attempts whose connectPeer has returned nil, resp. an error
ReturnedOk == {i \in Peers : attemptErr[i] = "nil"}

ReturnedFailures == {i \in Peers : attemptErr[i] = "err"}

NilsQueued == Cardinality({k \in 1 .. Len(peerConnCh) : peerConnCh[k] = NilErr})

\* results the loop has received from peerConnCh
ConsumedSuccesses == Cardinality(ReportedOk) - NilsQueued

ConsumedFailures == ReportedFailures \ Range(peerConnCh)

\* attempts whose result the loop has not received (yet)
Unconsumed == nPeers - ConsumedSuccesses - Cardinality(ConsumedFailures)

Called == qpc # "idle"

\* every attempt has reported and the loop has received every result
Drained ==
    /\ qpc \in {"loop", "done"}
    /\ \A i \in 1 .. nPeers : attempt[i] = "reported"
    /\ peerConnCh = <<>>

\* C1: connectPeers returns nil only when it has received at least
\* min(R, N) successful results.
C1_SuccessHasQuorum ==
    ret.kind = "nil" => ConsumedSuccesses >= Min(reqArg, nPeers)

C1_Witness ==
    /\ ret.kind = "nil"
    /\ nPeers = 3 /\ reqArg = 2
    /\ ConsumedSuccesses = 2
    /\ Len(peerErrs) = 1

\* C2: connectPeers returns the 'Many failures' error only when the received
\* successes plus the results not yet received are fewer than min(R, N),
\* that is when the recorded failures exceed N - min(R, N).
C2_FailureOnlyWhenUnreachable ==
    ret.kind = "ManyFailures" =>
        /\ ConsumedSuccesses + Unconsumed < Min(reqArg, nPeers)
        /\ Len(ret.errs) > nPeers - Min(reqArg, nPeers)

C2_Witness ==
    /\ ret.kind = "ManyFailures"
    /\ nPeers = 3 /\ reqArg = 2
    /\ ConsumedSuccesses = 1
    /\ Unconsumed = 0

\* C3: with R <= N, at least R successful attempts and no cancellation,
\* connectPeers ends in success: once every result has been received the
\* call has returned nil.
C3_SucceedsWhenEnoughSucceed ==
    (Called /\ reqArg <= nPeers /\ ctxErr = "nil" /\ Drained
        /\ Cardinality(ReturnedOk) >= reqArg)
    => ret.kind = "nil"

\* C4: with R <= N, once more than N - R attempts have failed and unless the
\* context is cancelled, connectPeers ends with the 'Many failures' error,
\* which carries at least N - R + 1 reasons.
C4_FailsWhenTooManyFail ==
    /\ (Called /\ reqArg <= nPeers /\ Cardinality(ReturnedFailures) > nPeers - reqArg)
         ~> (ctxErr # "nil" \/ ret.kind = "ManyFailures")
    /\ [](ret.kind = "ManyFailures" /\ reqArg <= nPeers
            => Len(ret.errs) >= nPeers - reqArg + 1)

C4_Witness ==
    /\ ret.kind = "ManyFailures"
    /\ ctxErr = "nil"
    /\ nPeers = 3 /\ reqArg = 2
    /\ Len(ret.errs) = 2
    /\ Cardinality(ReturnedOk) = 1

\* C5: called with R = 0, connectPeers launches no attempt and has returned
\* nil as soon as it is called.
C5_ZeroRequiredSucceedsAtOnce ==
    (Called /\ reqArg = 0) => (launched = 0 /\ ret.kind = "nil")

\* C6: called with R > N, connectPeers behaves as with R = N: it requires N
\* successes, returns nil exactly when all N attempts have succeeded and
\* fails on the first failure it records.
C6_ClampedToPeerCount ==
    (Called /\ reqArg > nPeers) =>
        /\ minRequired = nPeers
        /\ (ret.kind = "nil" => ConsumedSuccesses = nPeers)
        /\ (peersConnected = nPeers /\ nPeers >= 1 => ret.kind = "nil")
        /\ (qpc = "loop" => peerErrs = <<>>)
        /\ (ret.kind = "ManyFailures" => Len(ret.errs) = 1)

C6_Witness ==
    /\ ret.kind = "nil"
    /\ nPeers = 2 /\ reqArg > nPeers
    /\ ReportedOk = {1, 2}

\* C7: once the context is cancelled a pending connectPeers returns, with no
\* help from the attempts; returning then leaves the attempts as they are;
\* the context error is returned only when the context is cancelled, and it
\* carries the cause and every failure recorded so far.
C7_CancelEndsTheCall ==
    /\ (Called /\ ctxErr # "nil") ~> (qpc = "done")
    /\ [][qpc = "loop" /\ qpc' = "done" /\ ret'.kind = "ContextErrored"
            => attempt' = attempt /\ attemptErr' = attemptErr]_vars
    /\ [](ret.kind = "ContextErrored"
            => ctxErr # "nil" /\ ret.cause = ctxErr /\ ret.errs = peerErrs)
    /\ [](qpc = "done" => ret.kind \in {"nil", "ManyFailures", "ContextErrored"})

C7_Witness ==
    /\ ret.kind = "ContextErrored"
    /\ ret.cause = "deadline"
    /\ Len(ret.errs) = 1
    /\ \E i \in 1 .. nPeers : attempt[i] = "connecting"

\* C8 as stated: when connectPeers returns an error, the reason of every
\* attempt that has reported a failure by then is in the error.
C8_AllReportedFailuresReturned ==
    [][ret.kind = "pending" /\ ret'.kind \in {"ManyFailures", "ContextErrored"}
         => ReportedFailures' \subseteq Range(ret'.errs)]_vars

\* C8 amended: the error connectPeers returns lists exactly the failures the
\* loop has received from peerConnCh, each once; a failure still queued on
\* the channel is not in it.
C8_AllRecordedFailuresReturned ==
    ret.kind \in {"ManyFailures", "ContextErrored"} =>
        /\ Range(ret.errs) = ConsumedFailures
        /\ Len(ret.errs) = Cardinality(ConsumedFailures)

C8_Witness ==
    /\ ret.kind = "ManyFailures"
    /\ Len(ret.errs) = 2
    /\ ReportedFailures = {1, 2, 3}
    /\ Len(peerConnCh) = 1

(***************************************************************************)
(* Properties of TorTransport.initDialers                                  *)
(***************************************************************************)
\* goroutines between Lock (line 99) and the deferred Unlock
InInitDialers == {p \in Dialers : dpc[p] \in {"check", "factory", "mkws", "unlock"}}

\* the session is complete: torDialer is set and nobody is still between the
\* factory call and the construction of the web socket dialer
SessionBuilt == torDialer # 0 /\ \A p \in Dialers : dpc[p] # "mkws"

\* C9: bineTor.Dialer is called at most once on a transport, whatever the
\* sequence and interleaving of Dial calls.
C9_FactoryCalledAtMostOnce ==
    dialerCalls <= 1

\* C10: once the session is built, torDialer and wsDialer keep their values
\* and bineTor.Dialer is not called again; an initDialers call that finds it
\* built returns nil, whatever later dials do.
C10_SessionNeverRebuilt ==
    [][SessionBuilt =>
         /\ torDialer' = torDialer
         /\ wsDialer' = wsDialer
         /\ dialerCalls' = dialerCalls
         /\ \A p \in Dialers :
              /\ (dpc[p] = "check" /\ dpc'[p] # "check"
                    => dpc'[p] = "unlock" /\ ~initErr'[p])
              /\ (dpc[p] = "unlock" /\ dpc'[p] # "unlock"
                    => dpc'[p] = "rawdial")]_vars

C10_Witness ==
    /\ torDialer = 1
    /\ dialerCalls = 1
    /\ \E p \in Dialers :
        /\ dialRet[p] \in {"dialErr", "wrapErr", "upgradeErr"}
        /\ dpc[p] = "rawdial"
        /\ wsDialer = 1

\* C11: once a Dial has failed in initDialers, no later Dial on the same
\* transport obtains a session: torDialer stays nil.
C11_InitFailureIsFatal ==
    (\E p \in Dialers : dialRet[p] = "initErr") => torDialer = 0

\* C16: every attempt goroutine sends exactly one result and its send never
\* blocks, also after connectPeers has returned: peerConnCh never holds
\* more than N messages, every message sent is either still queued or was
\* received by the loop, an attempt whose connectPeer has returned gets to
\* report, and connectPeers returning neither touches the attempts nor
\* cancels the context.
C16_AttemptsReportOnceWithoutBlocking ==
    /\ [](\A i \in Peers : attempt[i] = "returned" => ENABLED AttemptReport(i))
    /\ [](Len(peerConnCh) <= nPeers)
    /\ [](Len(peerConnCh) + peersConnected + Len(peerErrs)
            = Cardinality({i \in Peers : attempt[i] = "reported"}))
    /\ [][\A i \in Peers : attempt[i] = "reported" => attempt'[i] = "reported"]_vars
    /\ [][ret' # ret => attempt' = attempt /\ ctxErr' = ctxErr]_vars
    /\ \A i \in Peers : (attempt[i] = "returned") ~> (attempt[i] = "reported")

C16_Witness ==
    /\ ret.kind = "nil"
    /\ nPeers = 3
    /\ \A i \in 1 .. 3 : attempt[i] = "reported"
    /\ Len(peerConnCh) = 2

\* C20: a goroutine that is past initDialers sees the whole session: the
\* tor dialer is set and, on a web socket transport, so is the web socket
\* dialer built on it; every raw dial of a web socket transport goes through
\* the web socket dialer, every raw dial of another transport through the
\* tor dialer, and without web socket mode wsDialer stays nil.
C20_NoHalfBuiltSession ==
    /\ \A p \in Dialers :
        /\ dpc[p] \in {"rawdial", "wrap", "upgrade"}
             => torDialer # 0 /\ (webSocket => wsDialer = torDialer)
        /\ dialVia[p] # "none"
             => dialVia[p] = (IF webSocket THEN "ws" ELSE "direct")
    /\ ~webSocket => wsDialer = 0

C20_Witness ==
    /\ webSocket
    /\ dialerCalls = 1
    /\ \E p, q \in Dialers :
        /\ p # q
        /\ dialVia[p] = "ws" /\ dpc[p] = "wrap"
        /\ dialVia[q] = "ws" /\ dpc[q] = "wrap"

(***************************************************************************)
(* Properties of torDHT.Close                                              *)
(***************************************************************************)
\* the result of the Close call made on obj by the last torDHT.Close, "none"
\* when it made no such call
ClosedWith(obj) ==
    IF \E k \in 1 .. Len(closeLog) : closeLog[k].obj = obj
      THEN LET k == CHOOSE j \in 1 .. Len(closeLog) : closeLog[j].obj = obj
           IN closeLog[k].err
      ELSE "none"

CloseReturned == cpc = "idle" /\ closeRet # "none"

\* C19: Close closes the DHT, then the host, each once and only when it is
\* not nil, the host also when closing the DHT failed; it returns the host's
\* error when both fail, the DHT's error when only the DHT fails, nil when
\* neither fails.
C19_CloseOrderAndError ==
    CloseReturned =>
        /\ closeLog = (IF dhtSet THEN <<[obj |-> "dht", err |-> ClosedWith("dht")]>> ELSE <<>>)
                   \o (IF hostSet THEN <<[obj |-> "host", err |-> ClosedWith("host")]>> ELSE <<>>)
        /\ (ClosedWith("dht") = "dhtErr" /\ ClosedWith("host") = "hostErr"
              => closeRet = "hostErr")
        /\ (ClosedWith("dht") = "dhtErr" /\ ClosedWith("host") # "hostErr"
              => closeRet = "dhtErr")
        /\ (ClosedWith("dht") # "dhtErr" /\ ClosedWith("host") # "hostErr"
              => closeRet = "nil")

C19_Witness ==
    /\ CloseReturned
    /\ closeRet = "hostErr"
    /\ ClosedWith("dht") = "dhtErr"
    /\ ClosedWith("host") = "hostErr"
    /\ closeCalls = 2

(***************************************************************************)
(* Properties of TorTransport.Listen                                       *)
(***************************************************************************)
ListenReturned == lpc = "idle" /\ listenRet # "none"

\* Listen returns in this step
ListenReturns == lpc # "idle" /\ lpc' = "idle"

\* C12: Listen closes the onion service it registered exactly when building
\* the address or starting the web socket listener failed: after such a
\* return the service is closed; a step in which Listen returns a listener
\* leaves it open, and it stays open until the holder of the listener closes
\* it; when the registration failed there is no service and none is closed.
C12_TeardownOnLateFailure ==
    /\ [](ListenReturned =>
            /\ (listenRet \in {"addrErr", "wsErr"} => onion = "closed")
            /\ (listenRet = "registerErr" => onion = "none")
            /\ (onion = "closed" => listenRet \in {"addrErr", "wsErr", "listener"}))
    /\ [][ListenReturns /\ listenRet' = "listener" => onion' = "open"]_vars
    /\ [][onion = "open" /\ onion' = "closed"
            => \/ ListenReturns /\ listenRet' \in {"addrErr", "wsErr"}
               \/ lpc = "idle" /\ listenRet = "listener" /\ UNCHANGED listenRet]_vars

C12_Witness ==
    /\ ListenReturned
    /\ webSocket
    /\ listenRet = "wsErr"
    /\ onion = "closed"

\* the valueless listen marker: the onionListen protocol is present and its
\* first occurrence carries no value
IsListenMarker(addr) ==
    /\ \E k \in 1 .. Len(addr) : addr[k].proto = "onionListen"
    /\ \A k \in 1 .. Len(addr) :
         (addr[k].proto = "onionListen"
            /\ \A i \in 1 .. (k - 1) : addr[i].proto # "onionListen")
         => addr[k].val = ""

\* C13: a Listen whose address is not the valueless marker is rejected at
\* once: it never gets past the test, no onion service is registered for
\* it, and the rejecting step changes nothing in the transport.
C13_RejectsBeforeSideEffects ==
    /\ [](listensStarted > 0 /\ ~IsListenMarker(listenAddr)
            => /\ lpc = "idle"
               /\ listenRet \in {"protoErr", "valueErr"}
               /\ onion = "none")
    /\ [][~IsListenMarker(listenAddr') /\ listensStarted' # listensStarted
            => /\ onionListens' = onionListens
               /\ UNCHANGED tvars]_vars

C13_Witness ==
    /\ listenRet = "valueErr"
    /\ lpc = "idle"
    /\ onionListens = 1
    /\ listensStarted = 2

(***************************************************************************)
(* Properties of TorTransport.Dial and TorTransport.CanDial                *)
(***************************************************************************)
\* C14: a Dial that has returned the upgrade error has left its raw
\* connection closed.
C14_UpgradeFailureClosesConn ==
    \A p \in Dialers :
        dpc[p] = "idle" /\ dialRet[p] = "upgradeErr" => rawConn[p] = "closed"

\* the address codec decodes addr
Decodes(addr) == OnionInfo(addr).err = "nil"

\* the fields of the transport
TransportFields == <<webSocket, torDialer, wsDialer, dialerLock>>

\* C15: CanDial returns true exactly for the addresses the codec decodes, so
\* exactly for those with which Dial gets past its decoding step, and a
\* CanDial call changes neither a field of the transport nor anything a Dial
\* in progress has done.
C15_CanDialIsPureDecode ==
    /\ [](canDialAddr # <<>> => (canDialRet <=> Decodes(canDialAddr)))
    /\ [](\A p \in Dialers :
            dialAddr[p] # <<>> /\ dialAddr[p] = canDialAddr => canDialRet)
    /\ [][<<canDialAddr, canDialRet>>' # <<canDialAddr, canDialRet>>
            => UNCHANGED <<TransportFields, dialerCalls, dpc, initErr, dialRet,
                           dialVia, dialAddr, dialCtx, rawConn>>]_vars

C15_Witness ==
    /\ canDialRet
    /\ canDialAddr = OnionAddr
    /\ torDialer = 1
    /\ \E p, q \in Dialers :
        /\ dpc[p] = "rawdial" /\ dialAddr[p] = OnionAddr
        /\ dpc[q] = "lock"

\* C17: Dial decodes the address, then ensures the session, then dials,
\* wraps and upgrades, and stops at the first failure: a Dial is past the
\* decoding step only with an address that decodes; a Dial returning the
\* address error changes no field of the transport and calls no factory; a
\* Dial that returned the address error or the initDialers error has opened
\* no stream; a stream is open or being wrapped only with the session built.
C17_DialStopsAtFirstFailure ==
    /\ [](\A p \in Dialers :
            /\ dpc[p] # "idle" => Decodes(dialAddr[p])
            /\ dpc[p] = "idle" /\ dialRet[p] \in {"addrErr", "initErr"}
                 => rawConn[p] = "none" /\ dialVia[p] = "none"
            /\ dpc[p] \in {"lock", "check", "factory", "mkws", "unlock", "rawdial"}
                 => rawConn[p] = "none" /\ dialVia[p] = "none"
            /\ rawConn[p] # "none" => torDialer # 0 /\ dialVia[p] # "none")
    /\ [][\A p \in Dialers :
            dpc[p] = "idle" /\ dpc'[p] = "idle" /\ dialsStarted' # dialsStarted
              /\ dialRet'[p] = "addrErr" /\ rawConn'[p] = "none"
                => UNCHANGED <<TransportFields, dialerCalls>>]_vars

C17_Witness ==
    /\ torDialer = 0
    /\ dialerCalls = 1
    /\ \E p, q \in Dialers :
        /\ dpc[p] = "idle" /\ dialRet[p] = "addrErr"
        /\ dpc[q] = "idle" /\ dialRet[q] = "initErr"

\* C18: when ctx is done while the raw dial is in flight, the raw dial does
\* not succeed: Dial returns the dial error.
C18_RawDialScopedToCtx ==
    [][\A p \in Dialers :
         dpc[p] = "rawdial" /\ dialCtx[p] = "done" /\ dpc'[p] # "rawdial"
            => dpc'[p] = "idle" /\ dialRet'[p] = "dialErr"]_vars

====
